---- MODULE Spec2Model ----
(***************************************************************************)
(* Model of src/app.py: the Flask calculator.  Calculator (add, subtract,  *)
(* multiply, divide, calculate), the /api/calculate handler and the        *)
(* /api/health handler.                                                    *)
(*                                                                         *)
(* Python values are records [t, p, q, s]: t is the Python type, p/q a     *)
(* number (a rational in lowest terms for a finite float), s the code      *)
(* points of a str.  A float is finite (t = "float"), an infinity          *)
(* (t = "inf", p its sign) or a NaN (t = "nan").  Finite floats whose      *)
(* magnitude exceeds FloatMax do not exist: arithmetic yields an infinity  *)
(* there, and float() of such an int raises OverflowError.                 *)
(***************************************************************************)
EXTENDS Integers, Sequences, FiniteSets, TLC

\* Largest finite float magnitude of the model (stands for sys.float_info.max).
FloatMax == 6
\* Largest number of records the shared logger holds in a run.
MaxLog == 2
\* Workers of the hosting runtime serving requests in parallel.
NumWorkers == 2

\* Digits kept by round(result, 10), split in two halves of HalfDigits digits.
ROUND_DIGITS == 10
HalfDigits == ROUND_DIGITS \div 2
HalfScale == 10 ^ HalfDigits

----------------------------------------------------------------------------
\* Python values

Val(t, p, q, s) == [t |-> t, p |-> p, q |-> q, s |-> s]
PyInt(n) == Val("int", n, 1, <<>>)
PyFloat(p, q) == Val("float", p, q, <<>>)
PyInf(sgn) == Val("inf", sgn, 1, <<>>)
PyNaN == Val("nan", 0, 1, <<>>)
PyBool(b) == Val("bool", IF b THEN 1 ELSE 0, 1, <<>>)
PyNone == Val("none", 0, 1, <<>>)
PyStr(cps) == Val("str", 0, 1, cps)
PyList == Val("list", 0, 1, <<>>)
PyDict == Val("dict", 0, 1, <<>>)
\* A name that is not bound (a field absent from the body, a local not yet set).
Unset == Val("unset", 0, 1, <<>>)

Abs(n) == IF n < 0 THEN -n ELSE n
Sign(n) == IF n < 0 THEN -1 ELSE IF n > 0 THEN 1 ELSE 0

RECURSIVE Gcd(_, _)
Gcd(a, b) == IF b = 0 THEN a ELSE Gcd(b, a % b)

\* The float p/q (q # 0), in lowest terms with a positive denominator; an
\* infinity when the magnitude exceeds the largest finite float.
MkFloat(p, q) ==
    LET g == Gcd(Abs(p), Abs(q))
        n == (Sign(q) * p) \div g
        d == Abs(q) \div g
    IN  IF Abs(n) > FloatMax * d THEN PyInf(Sign(n)) ELSE PyFloat(n, d)

----------------------------------------------------------------------------
\* Exceptions and messages

Msg(text, field, val) == [text |-> text, field |-> field, val |-> val]
NoMsg == Msg("", "", Unset)
Exc(type, msg) == [type |-> type, msg |-> msg]
NoExc == Exc("none", NoMsg)
\* The outcome of a call: the exception it raised (NoExc when it returned) and
\* the value it returned.
Raise(type, text) == [exc |-> Exc(type, Msg(text, "", Unset)), val |-> Unset]
RaiseMsg(type, msg) == [exc |-> Exc(type, msg), val |-> Unset]
Return(v) == [exc |-> NoExc, val |-> v]
Raised(o) == o.exc # NoExc

----------------------------------------------------------------------------
\* float(x)

IsSpace(c) == c \in {32, 9, 10, 13}
IsDigit(c) == c >= 48 /\ c <= 57
Lower(c) == IF c >= 65 /\ c <= 90 THEN c + 32 ELSE c

RECURSIVE LStrip(_)
LStrip(s) == IF s # <<>> /\ IsSpace(Head(s)) THEN LStrip(Tail(s)) ELSE s
RECURSIVE RStrip(_)
RStrip(s) == IF s # <<>> /\ IsSpace(s[Len(s)]) THEN RStrip(SubSeq(s, 1, Len(s) - 1)) ELSE s
Strip(s) == RStrip(LStrip(s))

LowerSeq(s) == [i \in 1..Len(s) |-> Lower(s[i])]
\* "inf", "infinity", "nan"
WordInf == <<105, 110, 102>>
WordInfinity == <<105, 110, 102, 105, 110, 105, 116, 121>>
WordNaN == <<110, 97, 110>>

AllDigits(s) == s # <<>> /\ \A i \in 1..Len(s) : IsDigit(s[i])
RECURSIVE DigitsValue(_)
DigitsValue(s) == IF s = <<>> THEN 0 ELSE 10 * DigitsValue(SubSeq(s, 1, Len(s) - 1)) + (s[Len(s)] - 48)

DotAt(s) == IF \E i \in 1..Len(s) : s[i] = 46 THEN CHOOSE i \in 1..Len(s) : s[i] = 46 /\ \A j \in 1..(i - 1) : s[j] # 46 ELSE 0

\* The unsigned decimal literals float() accepts here: digits, digits.digits,
\* digits. and .digits (exponents and underscores do not occur in the inputs of
\* the model).
IsDecimal(s) ==
    LET d == DotAt(s)
        ip == IF d = 0 THEN s ELSE SubSeq(s, 1, d - 1)
        fp == IF d = 0 THEN <<>> ELSE SubSeq(s, d + 1, Len(s))
    IN  /\ ip = <<>> \/ AllDigits(ip)
        /\ fp = <<>> \/ AllDigits(fp)
        /\ ip # <<>> \/ fp # <<>>

DecimalValue(s, sgn) ==
    LET d == DotAt(s)
        ip == IF d = 0 THEN s ELSE SubSeq(s, 1, d - 1)
        fp == IF d = 0 THEN <<>> ELSE SubSeq(s, d + 1, Len(s))
    IN  MkFloat(sgn * (DigitsValue(ip) * (10 ^ Len(fp)) + DigitsValue(fp)), 10 ^ Len(fp))

\* float(str): ValueError unless the stripped text is a signed decimal
\* literal, an infinity or a NaN.
ParseFloat(cps) ==
    LET t == LowerSeq(Strip(cps))
        signed == t # <<>> /\ Head(t) \in {43, 45}
        sgn == IF signed /\ Head(t) = 45 THEN -1 ELSE 1
        u == IF signed THEN Tail(t) ELSE t
    IN  IF u \in {WordInf, WordInfinity} THEN Return(PyInf(sgn))
        ELSE IF u = WordNaN THEN Return(PyNaN)
        ELSE IF IsDecimal(u) THEN Return(DecimalValue(u, sgn))
        ELSE Raise("ValueError", "could not convert string to float")

\* float(x) for every Python value a JSON body can carry.
ToFloat(x) ==
    CASE x.t \in {"float", "inf", "nan"} -> Return(x)
      [] x.t \in {"int", "bool"} ->
            IF Abs(x.p) > FloatMax
            THEN Raise("OverflowError", "int too large to convert to float")
            ELSE Return(PyFloat(x.p, 1))
      [] x.t = "str" -> ParseFloat(x.s)
      [] OTHER -> Raise("TypeError", "float() argument must be a string or a real number")

----------------------------------------------------------------------------
\* Float arithmetic (IEEE 754 special values; finite results are exact)

IsNaN(x) == x.t = "nan"
IsInf(x) == x.t = "inf"
IsZero(x) == x.t = "float" /\ x.p = 0
FSign(x) == Sign(x.p)
FNeg(x) == IF IsNaN(x) THEN x ELSE [x EXCEPT !.p = -x.p]

FAdd(x, y) ==
    IF IsNaN(x) \/ IsNaN(y) THEN PyNaN
    ELSE IF IsInf(x) /\ IsInf(y) THEN (IF x.p = y.p THEN x ELSE PyNaN)
    ELSE IF IsInf(x) THEN x
    ELSE IF IsInf(y) THEN y
    ELSE MkFloat(x.p * y.q + y.p * x.q, x.q * y.q)

FMul(x, y) ==
    IF IsNaN(x) \/ IsNaN(y) THEN PyNaN
    ELSE IF IsInf(x) \/ IsInf(y)
         THEN (IF IsZero(x) \/ IsZero(y) THEN PyNaN ELSE PyInf(FSign(x) * FSign(y)))
    ELSE MkFloat(x.p * y.p, x.q * y.q)

\* x / y for y # 0 (float division by zero raises ZeroDivisionError).
FDiv(x, y) ==
    IF IsZero(y) THEN Raise("ZeroDivisionError", "float division by zero")
    ELSE IF IsNaN(x) \/ IsNaN(y) THEN Return(PyNaN)
    ELSE IF IsInf(x) /\ IsInf(y) THEN Return(PyNaN)
    ELSE IF IsInf(x) THEN Return(PyInf(FSign(x) * FSign(y)))
    ELSE IF IsInf(y) THEN Return(PyFloat(0, 1))
    ELSE Return(MkFloat(x.p * y.q, x.q * y.p))

\* float(x) == 0
FloatEqZero(x) == IsZero(x)

----------------------------------------------------------------------------
\* class Calculator

\* Each method evaluates float(a), then float(b); the first conversion to raise
\* ends the call.
add(a, b) ==
    LET fa == ToFloat(a)
        fb == ToFloat(b)
    IN  IF Raised(fa) THEN fa
        ELSE IF Raised(fb) THEN fb
        ELSE Return(FAdd(fa.val, fb.val))

subtract(a, b) ==
    LET fa == ToFloat(a)
        fb == ToFloat(b)
    IN  IF Raised(fa) THEN fa
        ELSE IF Raised(fb) THEN fb
        ELSE Return(FAdd(fa.val, FNeg(fb.val)))

multiply(a, b) ==
    LET fa == ToFloat(a)
        fb == ToFloat(b)
    IN  IF Raised(fa) THEN fa
        ELSE IF Raised(fb) THEN fb
        ELSE Return(FMul(fa.val, fb.val))

divide(a, b) ==
    LET fb == ToFloat(b)
    IN  IF Raised(fb) THEN fb
        ELSE IF FloatEqZero(fb.val)
             THEN Raise("ValueError", "Division by zero is not allowed")
        ELSE LET fa == ToFloat(a)
             IN  IF Raised(fa) THEN fa ELSE FDiv(fa.val, fb.val)

\* Operator strings, as code points.
OpPlus == <<43>>
OpMinus == <<45>>
OpStar == <<42>>
OpSlash == <<47>>
\* U+00D7 MULTIPLICATION SIGN and U+00F7 DIVISION SIGN
OpTimesSign == <<215>>
OpDivisionSign == <<247>>
\* The two keys the source holds for the alternative symbols:
\* U+0E23 U+0097 and U+0E23 U+0E17.
OpKeyMultiplyAlt == <<3619, 151>>
OpKeyDivideAlt == <<3619, 3607>>
OpCaret == <<94>>

\* The keys of the operations dict and the method each maps to.
operations == [k \in {OpPlus, OpMinus, OpStar, OpKeyMultiplyAlt, OpSlash, OpKeyDivideAlt} |->
    CASE k = OpPlus -> "add"
      [] k = OpMinus -> "subtract"
      [] k \in {OpStar, OpKeyMultiplyAlt} -> "multiply"
      [] k \in {OpSlash, OpKeyDivideAlt} -> "divide"]

Hashable(x) == x.t \notin {"list", "dict"}
\* A dict key equal to the operator: only a str equals a str key.
InOperations(operator) == operator.t = "str" /\ operator.s \in DOMAIN operations

Apply(method, a, b) ==
    CASE method = "add" -> add(a, b)
      [] method = "subtract" -> subtract(a, b)
      [] method = "multiply" -> multiply(a, b)
      [] method = "divide" -> divide(a, b)

calculate(num1, operator, num2) ==
    IF ~Hashable(operator) THEN Raise("TypeError", "unhashable type")
    ELSE IF ~InOperations(operator)
         THEN RaiseMsg("ValueError", Msg("Invalid operator: ", "", operator))
    ELSE Apply(operations[operator.s], num1, num2)

----------------------------------------------------------------------------
\* Requests and responses

\* What request.get_json() parses: t is the Python type of the parsed body,
\* has the required field names it holds (keys of a dict, elements of a list,
\* substrings of a str), n the number of other members (the value of an int
\* or a bool), and num1, operator, num2 the values of a dict's keys.
\* t = "malformed" is a body that is no JSON, t = "nonjson" a request whose
\* content type is not JSON.
Body(t, n, has, a, op, b) == [t |-> t, n |-> n, has |-> has, num1 |-> a, operator |-> op, num2 |-> b]
Object(a, op, b) ==
    Body("dict", 0, {f \in {"num1", "operator", "num2"} :
                        \/ f = "num1" /\ a # Unset
                        \/ f = "operator" /\ op # Unset
                        \/ f = "num2" /\ b # Unset}, a, op, b)
Plain(t, n, has) == Body(t, n, has, Unset, Unset, Unset)
NoneBody == Plain("none", 0, {})
NoBody == Plain("unset", 0, {})

\* A number of a JSON response: an int, or a float given by its sign, integer
\* part and ROUND_DIGITS decimals (hi the first HalfDigits, lo the rest).
Num(t, sgn, ip, hi, lo) == [t |-> t, sgn |-> sgn, ip |-> ip, hi |-> hi, lo |-> lo]
NoResult == Num("none", 0, 0, 0, 0)

\* jsonify(...), status
\* A response: its HTTP status and its JSON object (keys are the keys the
\* object holds; success, result, error, state, message their values).
Failure(msg, status) ==
    [status |-> status, keys |-> {"success", "error"}, success |-> FALSE,
     result |-> NoResult, error |-> msg, state |-> "", message |-> ""]
Success(result) ==
    [status |-> 200, keys |-> {"success", "result"}, success |-> TRUE,
     result |-> result, error |-> NoMsg, state |-> "", message |-> ""]
NoResp ==
    [status |-> 0, keys |-> {}, success |-> FALSE,
     result |-> NoResult, error |-> NoMsg, state |-> "", message |-> ""]

Text(t) == Msg(t, "", Unset)

\* request.get_json(): the parsed body; a body that is no JSON raises
\* BadRequest; a request that is not JSON yields None or raises
\* UnsupportedMediaType, as the installed Flask decides.
get_json(body) ==
    CASE body.t = "malformed" -> {[exc |-> Exc("BadRequest", Text("400 Bad Request")), val |-> NoBody]}
      [] body.t = "nonjson" -> {[exc |-> NoExc, val |-> NoneBody],
                                [exc |-> Exc("UnsupportedMediaType", Text("415 Unsupported Media Type")), val |-> NoBody]}
      [] OTHER -> {[exc |-> NoExc, val |-> body]}

\* bool(data)
Truthy(data) ==
    CASE data.t \in {"dict", "list", "str"} -> data.has # {} \/ data.n > 0
      [] data.t \in {"int", "bool"} -> data.n # 0
      [] OTHER -> FALSE

\* field in data
Contains(field, data) ==
    IF data.t \in {"dict", "list", "str"} THEN Return(PyBool(field \in data.has))
    ELSE Raise("TypeError", "argument is not iterable")

\* data[field], for a field that is in data
GetItem(data, field) ==
    IF data.t = "dict" THEN Return(data[field])
    ELSE Raise("TypeError", "indices must be integers")

\* The list with its second entry forgotten.
required_fields_without_operator == <<"num1", "num2">>

required_fields == <<"num1", "operator", "num2">>

\* The loop over required_fields from index i on: the first field whose test
\* raises or that is missing ends it.
RECURSIVE CheckFields(_, _)
CheckFields(data, i) ==
    IF i > Len(required_fields) THEN [k |-> "next"]
    ELSE LET c == Contains(required_fields[i], data)
         IN  IF Raised(c) THEN [k |-> "raise", exc |-> c.exc]
             ELSE IF c.val.p = 0
                  THEN [k |-> "return",
                        resp |-> Failure(Msg("Missing required field: ", required_fields[i], Unset), 400)]
             ELSE CheckFields(data, i + 1)

\* The inner try: float(num1); float(num2), with ValueError and TypeError
\* caught; any other exception leaves the try.
ValidateNumbers(a, b) ==
    LET fa == ToFloat(a)
        fb == ToFloat(b)
        first == IF Raised(fa) THEN fa ELSE fb
    IN  IF ~Raised(first) THEN [k |-> "next"]
        ELSE IF first.exc.type \in {"ValueError", "TypeError"}
             THEN [k |-> "return", resp |-> Failure(Text("Invalid number format"), 400)]
        ELSE [k |-> "raise", exc |-> first.exc]

\* Lines 100-127 of api_calculate: what the validation of data ends in, and
\* the locals it binds when it passes.
Validated(data) ==
    IF ~Truthy(data) THEN [k |-> "return", resp |-> Failure(Text("No data provided"), 400)]
    ELSE LET c == CheckFields(data, 1)
         IN  IF c.k # "next" THEN c
             ELSE LET g == GetItem(data, "num1")
                  IN  IF Raised(g) THEN [k |-> "raise", exc |-> g.exc]
                      ELSE LET v == ValidateNumbers(data.num1, data.num2)
                           IN  IF v.k # "next" THEN v
                               ELSE [k |-> "next", num1 |-> data.num1,
                                     operator |-> data.operator, num2 |-> data.num2]

\* int(x) of a float
IntOf(x) ==
    CASE IsNaN(x) -> Raise("ValueError", "cannot convert float NaN to integer")
      [] IsInf(x) -> Raise("OverflowError", "cannot convert float infinity to integer")
      [] OTHER -> Return(PyInt(Sign(x.p) * (Abs(x.p) \div x.q)))

\* round(x, ROUND_DIGITS) of a finite float, half to even.
Round(x) ==
    LET ip == Abs(x.p) \div x.q
        r0 == Abs(x.p) % x.q
        hi == (r0 * HalfScale) \div x.q
        r1 == (r0 * HalfScale) % x.q
        lo == (r1 * HalfScale) \div x.q
        r2 == (r1 * HalfScale) % x.q
        up == 2 * r2 > x.q \/ (2 * r2 = x.q /\ lo % 2 = 1)
        lo2 == IF up THEN lo + 1 ELSE lo
        hi2 == IF lo2 = HalfScale THEN hi + 1 ELSE hi
        ip2 == IF hi2 = HalfScale THEN ip + 1 ELSE ip
    IN  Num("float", Sign(x.p), ip2, hi2 % HalfScale, lo2 % HalfScale)

\* Lines 133-136: result == int(result) decides between int(result) and
\* round(result, 10).
Normalise(result) ==
    LET i == IntOf(result)
    IN  IF Raised(i) THEN i
        ELSE IF result.q = 1 /\ result.p = i.val.p
             THEN Return(Num("int", Sign(i.val.p), Abs(i.val.p), 0, 0))
        ELSE Return(Round(result))

\* The except clauses with the status of the first one left out.
HandledWithoutStatus(exc) ==
    IF exc.type = "ValueError" THEN [Failure(exc.msg, 400) EXCEPT !.status = 200]
    ELSE Failure(Text("An unexpected error occurred"), 500)

\* The except clauses of api_calculate: a ValueError answers 400 with its
\* text, any other exception 500 with the fixed text.
Handled(exc) ==
    IF exc.type = "ValueError" THEN Failure(exc.msg, 400)
    ELSE Failure(Text("An unexpected error occurred"), 500)

\* api_calculate from line 100 on, as a function of the parsed body.
Finish(data) ==
    LET v == Validated(data)
    IN  CASE v.k = "return" -> v.resp
          [] v.k = "raise" -> Handled(v.exc)
          [] OTHER ->
               LET o == calculate(v.num1, v.operator, v.num2)
               IN  IF Raised(o) THEN Handled(o.exc)
                   ELSE LET n == Normalise(o.val)
                        IN  IF Raised(n) THEN Handled(n.exc) ELSE Success(n.val)

\* api_calculate as a function of the request: the responses it can give.
api_calculate(body) == {IF Raised(o) THEN Handled(o.exc) ELSE Finish(o.val) : o \in get_json(body)}

\* The response of health_check (the JSON key of state is "status").
HealthResp ==
    [status |-> 200, keys |-> {"status", "message"}, success |-> FALSE,
     result |-> NoResult, error |-> NoMsg, state |-> "healthy",
     message |-> "Calculator API is running"]
\* The request GET /api/health, which has no body.
HealthReq == Plain("health", 0, {})

----------------------------------------------------------------------------
\* Inputs

Fields == {"num1", "operator", "num2"}
BigInt == PyInt(FloatMax + 1)
\* "3", "0.0", "abc", "nan", "-Inf"
Strings == {<<51>>, <<48, 46, 48>>, <<97, 98, 99>>, <<110, 97, 110>>, <<45, 73, 110, 102>>}
Operands ==
    {PyInt(0), PyInt(2), PyInt(3), BigInt, PyFloat(1, 2), PyNaN, PyInf(1),
     PyBool(TRUE), PyBool(FALSE), PyNone, PyList} \cup {PyStr(c) : c \in Strings}
Operators ==
    {PyStr(c) : c \in {OpPlus, OpMinus, OpStar, OpSlash, OpTimesSign, OpDivisionSign,
                       OpKeyMultiplyAlt, OpKeyDivideAlt, OpCaret}}
    \cup {PyNone, PyList}

Objects ==
    {Object(a, op, b) : a \in Operands \cup {Unset}, op \in Operators \cup {Unset},
                        b \in Operands \cup {Unset}}
OtherBodies ==
    {NoneBody, Plain("dict", 1, {}), Plain("list", 0, {}), Plain("list", 1, {}),
     Plain("list", 1, {"num1"}), Plain("list", 0, Fields), Plain("str", 0, {}),
     Plain("str", 3, {}), Plain("str", 0, Fields), Plain("int", 0, {}), Plain("int", 5, {}),
     Plain("bool", 1, {}), Plain("bool", 0, {}), Plain("malformed", 0, {}),
     Plain("nonjson", 0, {})}
Bodies == Objects \cup OtherBodies

\* The bodies of the requests served in parallel.
ParBodies ==
    {Object(PyInt(2), PyStr(OpPlus), PyInt(3)), Object(PyInt(2), PyStr(OpSlash), PyInt(3)),
     Object(PyInt(2), PyStr(OpSlash), PyInt(0)), Object(PyInt(3), PyStr(OpCaret), PyInt(2)),
     Object(PyStr(<<97, 98, 99>>), PyStr(OpPlus), PyInt(3)), Object(PyInt(2), Unset, PyInt(3)),
     Object(PyNaN, PyStr(OpStar), PyInt(3)), Plain("malformed", 0, {})}

----------------------------------------------------------------------------
\* State

VARIABLES
    worker,   \* per worker: the request it serves, where it is, its locals
    log       \* the records of the module's logger, oldest first

vars == <<worker, log>>

Workers == 1..NumWorkers

Idle ==
    [pc |-> "idle", req |-> NoBody, data |-> NoBody, num1 |-> Unset, operator |-> Unset,
     num2 |-> Unset, result |-> Unset, resp |-> NoResp, called |-> FALSE]

Init ==
    /\ worker = [w \in Workers |-> Idle]
    /\ log = <<>>

\* The requests that may still log a record.
InFlight == Cardinality({w \in Workers : worker[w].pc \notin {"idle", "responded"}})

\* The except clauses reached with exception exc: the error is logged and
\* the failure returned.
Fail(w, exc) ==
    /\ worker' = [worker EXCEPT ![w].pc = "responded", ![w].resp = Handled(exc)]
    /\ log' = Append(log, "ERROR")

\* A return inside the try.
Respond(w, r) ==
    /\ worker' = [worker EXCEPT ![w].pc = "responded", ![w].resp = r]
    /\ UNCHANGED log

\* A request with the given body reaches worker w: line 98.
Receive(w, body) ==
    /\ worker[w].pc = "idle"
    /\ Len(log) + InFlight < MaxLog
    /\ \E o \in get_json(body) :
          IF Raised(o)
          THEN /\ worker' = [worker EXCEPT ![w] = [Idle EXCEPT !.pc = "responded", !.req = body,
                                                               !.resp = Handled(o.exc)]]
               /\ log' = Append(log, "ERROR")
          ELSE /\ worker' = [worker EXCEPT ![w] = [Idle EXCEPT !.pc = "parsed", !.req = body,
                                                               !.data = o.val]]
               /\ UNCHANGED log

\* Lines 100-127.
Validate(w) ==
    /\ worker[w].pc = "parsed"
    /\ LET v == Validated(worker[w].data)
       IN  CASE v.k = "return" -> Respond(w, v.resp)
             [] v.k = "raise" -> Fail(w, v.exc)
             [] OTHER -> /\ worker' = [worker EXCEPT ![w].pc = "validated", ![w].num1 = v.num1,
                                                      ![w].operator = v.operator,
                                                      ![w].num2 = v.num2]
                         /\ UNCHANGED log

\* The arguments kept in one place for all workers: a worker reads those of
\* another request that is between its validation and its calculation.
CalcArgsShared(w) ==
    LET others == {o \in DOMAIN worker : o # w /\ worker[o].pc = "validated"}
        r == IF others = {} THEN w ELSE CHOOSE o \in others : TRUE
    IN  <<worker[r].num1, worker[r].operator, worker[r].num2>>

\* The arguments of the call of line 130: the worker's own locals.
CalcArgs(w) == <<worker[w].num1, worker[w].operator, worker[w].num2>>

\* Line 130.
Calculate(w) ==
    /\ worker[w].pc = "validated"
    /\ LET args == CalcArgs(w)
           o == calculate(args[1], args[2], args[3])
       IN  IF Raised(o)
           THEN /\ worker' = [worker EXCEPT ![w].pc = "responded", ![w].called = TRUE,
                                            ![w].resp = Handled(o.exc)]
                /\ log' = Append(log, "ERROR")
           ELSE /\ worker' = [worker EXCEPT ![w].pc = "calculated", ![w].called = TRUE,
                                            ![w].result = o.val]
                /\ UNCHANGED log

\* Lines 133-143.
Format(w) ==
    /\ worker[w].pc = "calculated"
    /\ LET n == Normalise(worker[w].result)
       IN  IF Raised(n) THEN Fail(w, n.exc)
           ELSE /\ worker' = [worker EXCEPT ![w].pc = "responded", ![w].resp = Success(n.val)]
                /\ log' = Append(log, "INFO")

\* The response of worker w is sent and the worker is free for the next
\* request; nothing of the request is kept.
Deliver(w) ==
    /\ worker[w].pc = "responded"
    /\ worker' = [worker EXCEPT ![w] = Idle]
    /\ UNCHANGED log

\* GET /api/health reaches worker w.
health_check(w) ==
    /\ worker[w].pc = "idle"
    /\ worker' = [worker EXCEPT ![w] = [Idle EXCEPT !.pc = "responded", !.req = HealthReq,
                                                    !.resp = HealthResp]]
    /\ UNCHANGED log

\* One worker serving one request after the other.
Next ==
    \/ \E body \in Bodies : Receive(1, body)
    \/ Validate(1)
    \/ Calculate(1)
    \/ Format(1)
    \/ Deliver(1)
    \/ health_check(1)

Spec == Init /\ [][Next]_vars

\* The workers serving requests in parallel.
NextPar ==
    \/ \E w \in Workers : \E body \in ParBodies : Receive(w, body)
    \/ \E w \in Workers : Validate(w)
    \/ \E w \in Workers : Calculate(w)
    \/ \E w \in Workers : Format(w)
    \/ \E w \in Workers : Deliver(w)
    \/ \E w \in Workers : health_check(w)

SpecPar == Init /\ [][NextPar]_vars

----------------------------------------------------------------------------
\* Properties

\* Worker w has answered a request to /api/calculate.
Answered(w) == worker[w].pc = "responded" /\ worker[w].req # HealthReq
\* The body is a JSON object / a JSON object with all three fields.
IsObject(b) == b.t = "dict"
FullObject(b) == b.t = "dict" /\ b.has = Fields
EmptyObject(b) == b.t = "dict" /\ b.has = {} /\ b.n = 0
\* The first required field, in the order num1, operator, num2, that b lacks.
FirstMissing(b) ==
    IF "num1" \notin b.has THEN "num1"
    ELSE IF "operator" \notin b.has THEN "operator"
    ELSE "num2"
\* The operators the specification recognises: + - * / and U+00D7, U+00F7.
SpecOperators == {PyStr(c) : c \in {OpPlus, OpMinus, OpStar, OpTimesSign, OpSlash, OpDivisionSign}}
DivisionOperators == {PyStr(OpSlash), PyStr(OpDivisionSign)}
\* A value float() converts / a value that is no number and no text of one.
Numeric(v) == ~Raised(ToFloat(v))
Unparsable(v) == v.t \in {"none", "list", "dict"} \/ (v.t = "str" /\ Raised(ParseFloat(v.s)))
\* A number float() cannot hold.
OutOfRange(v) == v.t = "int" /\ Raised(ToFloat(v))
ZeroValued(v) == Numeric(v) /\ IsZero(ToFloat(v).val)

TextNoData == "No data provided"
TextMissing == "Missing required field: "
TextNumberFormat == "Invalid number format"
TextOperator == "Invalid operator: "
TextDivision == "Division by zero is not allowed"
TextUnexpected == "An unexpected error occurred"

\* C1, as stated: every JSON object lacking at least one of num1, operator,
\* num2 (the object lacking all three included) is answered 400, success =
\* false, with the MissingField error naming a field it lacks.
C1_Original ==
    \A w \in Workers :
        (Answered(w) /\ IsObject(worker[w].req) /\ worker[w].req.has # Fields)
        => /\ worker[w].resp.status = 400
           /\ ~worker[w].resp.success
           /\ worker[w].resp.error.text = TextMissing
           /\ worker[w].resp.error.field \in Fields \ worker[w].req.has

\* C1, amended: a JSON object with at least one key that lacks one of num1,
\* operator, num2 is answered 400, success = false, with the MissingField
\* error naming the first field it lacks; the empty object is answered 400,
\* success = false, with the error "No data provided".
C1_MissingField ==
    \A w \in Workers :
        (Answered(w) /\ IsObject(worker[w].req) /\ worker[w].req.has # Fields)
        => IF EmptyObject(worker[w].req)
           THEN worker[w].resp = Failure(Text(TextNoData), 400)
           ELSE worker[w].resp = Failure(Msg(TextMissing, FirstMissing(worker[w].req), Unset), 400)

C1_Witness ==
    \E w \in Workers :
        /\ Answered(w) /\ IsObject(worker[w].req)
        /\ worker[w].req.has = {"num1", "num2"}
        /\ worker[w].resp.error.field = "operator"

\* C2: a request with all three fields, numeric operands and an operator
\* value, of any JSON type, outside + - * / U+00D7 U+00F7 is answered 400,
\* success = false, with the InvalidOperator error.
C2_Claim ==
    \A w \in Workers :
        (/\ Answered(w) /\ FullObject(worker[w].req)
         /\ worker[w].req.operator \notin SpecOperators
         /\ Numeric(worker[w].req.num1) /\ Numeric(worker[w].req.num2))
        => /\ worker[w].resp.status = 400
           /\ ~worker[w].resp.success
           /\ worker[w].resp.error.text = TextOperator

\* C3: a request with all three fields in which num1 or num2 cannot be parsed
\* as a number is answered 400, success = false, "Invalid number format", and
\* Calculator.calculate is not invoked for it.
C3_Claim ==
    \A w \in Workers :
        (/\ Answered(w) /\ FullObject(worker[w].req)
         /\ Unparsable(worker[w].req.num1) \/ Unparsable(worker[w].req.num2))
        => /\ worker[w].resp = Failure(Text(TextNumberFormat), 400)
           /\ ~worker[w].called

\* C4: with a division operator (/ or U+00F7) and numeric operands, a second
\* operand equal to zero ends in DivisionByZero with no result, answered 400
\* with success = false, whatever the first operand; a second operand other
\* than zero never ends in DivisionByZero.
C4_Claim ==
    \A w \in Workers :
        (/\ Answered(w) /\ FullObject(worker[w].req)
         /\ worker[w].req.operator \in DivisionOperators
         /\ Numeric(worker[w].req.num1) /\ Numeric(worker[w].req.num2))
        => IF ZeroValued(worker[w].req.num2)
           THEN /\ worker[w].resp = Failure(Text(TextDivision), 400)
                /\ worker[w].result = Unset
           ELSE worker[w].resp.error.text # TextDivision

\* C5: calculate with U+00D7 ends as calculate with * does, and calculate with
\* U+00F7 as calculate with / does (the same result or the same failure), for
\* all numeric operands; neither ends in InvalidOperator.
C5_Claim ==
    \A w \in Workers :
        (worker[w].called /\ worker[w].operator \in {PyStr(OpTimesSign), PyStr(OpDivisionSign)})
        => LET ascii == IF worker[w].operator = PyStr(OpTimesSign) THEN PyStr(OpStar) ELSE PyStr(OpSlash)
               o == calculate(worker[w].num1, ascii, worker[w].num2)
           IN  /\ worker[w].resp.error.text # TextOperator
               /\ IF Raised(o) THEN worker[w].resp = Handled(o.exc)
                  ELSE worker[w].result = o.val

\* C6: in every response of /api/calculate the result is present iff success
\* is true and the error is present iff success is false; a success has
\* status 200, a failure status 400 or 500.
C6_ResponseShape ==
    \A w \in Workers :
        Answered(w)
        => /\ "success" \in worker[w].resp.keys
           /\ ("result" \in worker[w].resp.keys) <=> worker[w].resp.success
           /\ (worker[w].resp.result # NoResult) <=> worker[w].resp.success
           /\ ("error" \in worker[w].resp.keys) <=> ~worker[w].resp.success
           /\ (worker[w].resp.error # NoMsg) <=> ~worker[w].resp.success
           /\ worker[w].resp.success => worker[w].resp.status = 200
           /\ ~worker[w].resp.success => worker[w].resp.status \in {400, 500}

C6_Witness ==
    \E w \in Workers :
        /\ Answered(w) /\ worker[w].resp.success
        /\ worker[w].resp.result.t = "float"

\* C7: a failure that is none of the anticipated kinds (missing data or field,
\* number format, operator, division by zero) is answered 500 with the fixed
\* text, so that no response carries the text of another exception; the
\* anticipated kinds are answered 400.
C7_Claim ==
    \A w \in Workers :
        (Answered(w) /\ ~worker[w].resp.success)
        => IF worker[w].resp.error.text \in {TextNoData, TextMissing, TextNumberFormat, TextOperator, TextDivision}
           THEN worker[w].resp.status = 400
           ELSE worker[w].resp = Failure(Text(TextUnexpected), 500)

\* C8: once calculate has returned a value the response is a success whose
\* result is that value as an int when it is an integer and otherwise that
\* value rounded to ROUND_DIGITS decimals: the normalisation never fails.
C8_Claim ==
    \A w \in Workers :
        (Answered(w) /\ worker[w].result # Unset)
        => /\ worker[w].resp.success
           /\ worker[w].result.t = "float"
           /\ IF worker[w].result.q = 1
              THEN worker[w].resp.result = Num("int", Sign(worker[w].result.p), Abs(worker[w].result.p), 0, 0)
              ELSE worker[w].resp.result = Round(worker[w].result)

\* C9: whatever the workers serve before or meanwhile, the response to a
\* request is the one its body alone determines, so two requests with the
\* same body are given the same status and the same JSON.
C9_Stateless ==
    /\ \A w \in Workers :
          worker[w].pc = "responded"
          => IF worker[w].req = HealthReq THEN worker[w].resp = HealthResp
             ELSE worker[w].resp \in api_calculate(worker[w].req)
    /\ \A v, w \in Workers :
          (worker[v].pc = "responded" /\ worker[w].pc = "responded" /\ worker[v].req = worker[w].req)
          => worker[v].resp = worker[w].resp

C9_Witness ==
    \E v, w \in Workers :
        /\ v # w /\ Answered(v) /\ Answered(w)
        /\ worker[v].req = worker[w].req
        /\ worker[v].resp.success
        /\ Len(log) = MaxLog

\* The failure C10 names for a JSON object: the first, in the order empty
\* body, missing field, number format, operator, division by zero ("" when it
\* names none, as for a number too large for a float).
FirstFailure(b) ==
    IF EmptyObject(b) THEN TextNoData
    ELSE IF b.has # Fields THEN TextMissing
    ELSE IF OutOfRange(b.num1) \/ OutOfRange(b.num2) THEN ""
    ELSE IF Unparsable(b.num1) \/ Unparsable(b.num2) THEN TextNumberFormat
    ELSE IF b.operator \notin SpecOperators THEN TextOperator
    ELSE IF b.operator \in DivisionOperators /\ ZeroValued(b.num2) THEN TextDivision
    ELSE ""

\* C10: the handler reports only the first failure in the order empty body,
\* missing field (num1, operator, num2), number format, operator, division by
\* zero.
C10_Claim ==
    \A w \in Workers :
        (Answered(w) /\ IsObject(worker[w].req) /\ FirstFailure(worker[w].req) # "")
        => /\ worker[w].resp.error.text = FirstFailure(worker[w].req)
           /\ worker[w].resp.error.text = TextMissing
                => worker[w].resp.error.field = FirstMissing(worker[w].req)

====
